---- MODULE Spec2Model ----
(***************************************************************************)
(* Guest roster of the birthday site, in its two variants:                 *)
(*   local  - the script that keeps the roster in localStorage             *)
(*   remote - script.js, which keeps the roster on the Flask API           *)
(* A behaviour is one browser session (with page reloads) of one variant.  *)
(* Strings the code inspects character by character (guest names) are      *)
(* sequences of one-character strings.                                     *)
(***************************************************************************)
EXTENDS Integers, Sequences, FiniteSets, Bags, TLC

VARIABLES
    variant,         \* which script the page runs: "local" or "remote"
    guests,          \* appState.guests
    confirmedCount,  \* textContent of the #confirmedCount element
    storage,         \* localStorage item 'birthdayAppState' (local variant)
    clock,           \* the value Date.now() returns
    hooks,           \* TRUE once setupEventListeners has run on this page
    server,          \* the guest list held by the API (remote variant)
    tasks,           \* async handler invocations suspended at an await
    calls,           \* POST/PUT/DELETE requests sent so far
    listFailed,      \* TRUE once loadGuests has ended without installing a list
    last             \* the handler step taken last: input, outcome, notification

vars == <<variant, guests, confirmedCount, storage, clock, hooks, server, tasks, calls, listFailed, last>>

-----------------------------------------------------------------------------
(* Bounds of the model *)

MaxGuests == 2      \* longest roster an add may produce
MaxClock == 3       \* last value of Date.now() in a behaviour
MaxCalls == 2       \* requests the remote handlers send in a behaviour

(* Program constants *)

MaxNameLen == 50

-----------------------------------------------------------------------------
(* Strings *)

Rep(c, n) == [i \in 1..n |-> c]

Whitespace == {" ", "\t", "\n"}

RECURSIVE trimStart(_)
trimStart(s) ==
    IF s # <<>> /\ Head(s) \in Whitespace THEN trimStart(Tail(s)) ELSE s

RECURSIVE trimEnd(_)
trimEnd(s) ==
    IF s # <<>> /\ s[Len(s)] \in Whitespace
    THEN trimEnd(SubSeq(s, 1, Len(s) - 1))
    ELSE s

\* String.prototype.trim
trim(s) == trimEnd(trimStart(s))

UpperCase == <<"A", "B", "C", "D", "E", "F", "G", "H", "I", "J", "K", "L", "M",
               "N", "O", "P", "Q", "R", "S", "T", "U", "V", "W", "X", "Y", "Z">>
LowerCase == <<"a", "b", "c", "d", "e", "f", "g", "h", "i", "j", "k", "l", "m",
               "n", "o", "p", "q", "r", "s", "t", "u", "v", "w", "x", "y", "z">>

LowerOf == [c \in {UpperCase[i] : i \in DOMAIN UpperCase} |->
              LowerCase[CHOOSE i \in DOMAIN UpperCase : UpperCase[i] = c]]

lowerChar(c) == IF c \in DOMAIN LowerOf THEN LowerOf[c] ELSE c

\* String.prototype.toLowerCase
toLowerCase(s) == [i \in DOMAIN s |-> lowerChar(s[i])]

escapeChar(c) ==
    CASE c = "&"  -> <<"&", "a", "m", "p", ";">>
      [] c = "<"  -> <<"&", "l", "t", ";">>
      [] c = ">"  -> <<"&", "g", "t", ";">>
      [] c = "\"" -> <<"&", "q", "u", "o", "t", ";">>
      [] c = "'"  -> <<"&", "#", "0", "3", "9", ";">>
      [] OTHER    -> <<c>>

RECURSIVE escapeHtml(_)
escapeHtml(text) ==
    IF text = <<>> THEN <<>> ELSE escapeChar(Head(text)) \o escapeHtml(Tail(text))

-----------------------------------------------------------------------------
(* Guest records and the array operations the handlers use *)

Statuses == {"pending", "confirmed", "declined"}

\* a JSON null in the guests array (an imported file may hold one)
Null == [null |-> TRUE]

Guest(id, name, status) == [id |-> id, name |-> name, status |-> status]

SampleGuest == Guest(1, <<"S", "a", "m", "p", "l", "e", " ", "G", "u", "e", "s", "t">>, "pending")

\* Date.now() at the first page load: a timestamp, later than the Sample Guest's id
FirstNow == SampleGuest.id + 1

HasNull(gs) == \E i \in DOMAIN gs : gs[i] = Null

Min(S) == CHOOSE x \in S : \A y \in S : x <= y

\* index of the first null element, Len + 1 when there is none
FirstNull(gs) == Min({i \in DOMAIN gs : gs[i] = Null} \cup {Len(gs) + 1})

\* gs.find(g => g.id === id): the index found, 0 when none is, -1 when the
\* callback reads .id of a null element first (TypeError)
findById(gs, id) ==
    LET hit == Min({i \in DOMAIN gs : gs[i] # Null /\ gs[i].id = id} \cup {Len(gs) + 1})
    IN  IF FirstNull(gs) < hit THEN -1
        ELSE IF hit = Len(gs) + 1 THEN 0
        ELSE hit

\* gs.some(guest => guest.name.toLowerCase() === name.toLowerCase())
someSameName(gs, name) ==
    LET hit == Min({i \in DOMAIN gs :
                      gs[i] # Null /\ toLowerCase(gs[i].name) = toLowerCase(name)}
                   \cup {Len(gs) + 1})
    IN  IF FirstNull(gs) < hit THEN "threw"
        ELSE IF hit = Len(gs) + 1 THEN "false"
        ELSE "true"

RECURSIVE SelectNotId(_, _)
SelectNotId(gs, id) ==
    IF gs = <<>> THEN <<>>
    ELSE IF Head(gs).id # id THEN <<Head(gs)>> \o SelectNotId(Tail(gs), id)
    ELSE SelectNotId(Tail(gs), id)

\* gs.filter(g => g.id !== id), for an array without null elements
filterNotId(gs, id) == SelectNotId(gs, id)

\* gs.filter(g => g.status === status).length, for an array without null elements
countStatus(gs, status) == Cardinality({i \in DOMAIN gs : gs[i].status = status})

\* getGuestStats()
getGuestStats(gs) ==
    [total     |-> Len(gs),
     confirmed |-> countStatus(gs, "confirmed"),
     pending   |-> countStatus(gs, "pending"),
     declined  |-> countStatus(gs, "declined")]

\* renderGuestList() completes unless createGuestElement reads .status of null
renderThrows(gs) == HasNull(gs)

\* updateConfirmedCount(): the text the element shows afterwards; the filter
\* callback throws on a null element and the element keeps its text
updateConfirmedCount(gs, shown) ==
    IF HasNull(gs) THEN shown ELSE countStatus(gs, "confirmed")

\* saveToLocalStorage(): the item written (JSON.stringify keeps nulls)
NoItem == [absent |-> TRUE]
saveToLocalStorage(gs) == [guests |-> gs]

-----------------------------------------------------------------------------
(* Inputs *)

Blank  == <<" ", " ">>
Al     == <<"A", "l">>
AlPad  == <<" ", "a", "L", " ">>                  \* "Al" in another case, padded
B49Amp == Rep("b", MaxNameLen - 1) \o <<"&">>     \* MaxNameLen characters, one of them escaped
B51    == Rep("b", MaxNameLen + 1)

NameInputs == {Blank, Al, AlPad, B49Amp, B51}

\* ids a handler is called with: those of the rows on screen, and 0, which no row has
IdInputs(gs) == {0} \cup {gs[i].id : i \in {j \in DOMAIN gs : gs[j] # Null}}

\* values updateGuestStatus is called with: two of the select's options and
\* one the select does not offer
StatusInputs == {"pending", "confirmed", "maybe"}

\* files handed to importGuestList, as JSON.parse reads them
ExportFile  == [kind |-> "object", guests |-> <<Guest(1, Al, "confirmed")>>]
ArrayFile   == [kind |-> "array",
                guests |-> <<Guest(5, <<>>, "maybe"), Guest(5, Al, "pending")>>]
NullFile    == [kind |-> "array", guests |-> <<Guest(5, Al, "confirmed"), Null>>]
TrioFile    == [kind |-> "array",
                guests |-> <<Guest(9, Al, "pending"), Guest(7, Al, "pending"),
                             Guest(8, Al, "pending")>>]
BrokenFile  == [kind |-> "other", guests |-> <<>>]

ImportFiles == {ExportFile, ArrayFile, NullFile, TrioFile, BrokenFile}

-----------------------------------------------------------------------------
(* The handler step taken last *)

\* notice is the message showNotification was called with, "" when it was not
Step(op, outcome, notice) == [op |-> op, outcome |-> outcome, notice |-> notice]

-----------------------------------------------------------------------------
(* Local variant *)

\* validation with the length test off by one (>= 52 instead of > 50)
validateName_offByOne(name) ==
    IF name = <<>> THEN "empty"
    ELSE IF Len(name) > MaxNameLen + 1 THEN "too_long"
    ELSE "ok"

\* the two validation tests of addGuest, on the trimmed name
validateName(name) ==
    IF name = <<>> THEN "empty"
    ELSE IF Len(name) > MaxNameLen THEN "too_long"
    ELSE "ok"

\* the record addGuest builds
newGuest(name, now) == Guest(now, escapeHtml(name), "pending")

UnchangedRemote == UNCHANGED <<variant, server, tasks, calls, listFailed>>

addGuest(input) ==
    /\ variant = "local"
    /\ LET name == trim(input)
           dup  == someSameName(guests, name)
       IN  IF validateName(name) = "empty"
           THEN /\ last' = Step("addGuest", "validation_error", "Please enter a name")
                /\ UNCHANGED <<guests, confirmedCount, storage>>
           ELSE IF validateName(name) = "too_long"
           THEN /\ last' = Step("addGuest", "validation_error", "Name is too long")
                /\ UNCHANGED <<guests, confirmedCount, storage>>
           ELSE IF dup = "threw"
           THEN /\ last' = Step("addGuest", "threw", "")
                /\ UNCHANGED <<guests, confirmedCount, storage>>
           ELSE IF dup = "true"
           THEN /\ last' = Step("addGuest", "duplicate", "This guest has already been added")
                /\ UNCHANGED <<guests, confirmedCount, storage>>
           ELSE /\ Len(guests) < MaxGuests
                /\ guests' = Append(guests, newGuest(name, clock))
                /\ confirmedCount' = updateConfirmedCount(guests', confirmedCount)
                /\ storage' = saveToLocalStorage(guests')
                /\ last' = Step("addGuest", "added", "added successfully")
    /\ UNCHANGED <<clock, hooks>>
    /\ UnchangedRemote

\* the status written to every record with the id of the one found
setStatus_everyMatch(gs, i, newStatus) ==
    [j \in DOMAIN gs |->
        IF gs[j] # Null /\ gs[j].id = gs[i].id THEN [gs[j] EXCEPT !.status = newStatus] ELSE gs[j]]

\* the found record taken out and put back, updated, at the end of the list
setStatus_moveToEnd(gs, i, newStatus) ==
    Append(SubSeq(gs, 1, i - 1) \o SubSeq(gs, i + 1, Len(gs)),
           [gs[i] EXCEPT !.status = newStatus])

\* guest.status = newStatus on the record at index i
setStatus(gs, i, newStatus) == [gs EXCEPT ![i].status = newStatus]

updateGuestStatus(id, newStatus) ==
    /\ variant = "local"
    /\ LET i == findById(guests, id)
       IN  IF i = -1
           THEN /\ last' = Step("updateGuestStatus", "threw", "")
                /\ UNCHANGED <<guests, confirmedCount, storage>>
           ELSE IF i = 0
           THEN /\ last' = Step("updateGuestStatus", "ignored", "")
                /\ UNCHANGED <<guests, confirmedCount, storage>>
           ELSE /\ guests' = setStatus(guests, i, newStatus)
                /\ confirmedCount' = updateConfirmedCount(guests', confirmedCount)
                /\ IF HasNull(guests')
                   THEN /\ storage' = storage
                        /\ last' = Step("updateGuestStatus", "threw", "")
                   ELSE /\ storage' = saveToLocalStorage(guests')
                        /\ last' = Step("updateGuestStatus", "updated", "")
    /\ UNCHANGED <<clock, hooks>>
    /\ UnchangedRemote

removeGuest(id) ==
    /\ variant = "local"
    /\ LET i == findById(guests, id)
       IN  IF i = -1 \/ (i > 0 /\ HasNull(guests))
           THEN /\ last' = Step("removeGuest", "threw", "")
                /\ UNCHANGED <<guests, confirmedCount, storage>>
           ELSE IF i = 0
           THEN /\ last' = Step("removeGuest", "ignored", "")
                /\ UNCHANGED <<guests, confirmedCount, storage>>
           ELSE /\ guests' = filterNotId(guests, id)
                /\ confirmedCount' = updateConfirmedCount(guests', confirmedCount)
                /\ storage' = saveToLocalStorage(guests')
                /\ last' = Step("removeGuest", "removed", "removed")
    /\ UNCHANGED <<clock, hooks>>
    /\ UnchangedRemote

\* the onload callback of importGuestList
importGuestList(file) ==
    /\ variant = "local"
    /\ IF file.kind \notin {"object", "array"}
       THEN /\ last' = Step("importGuestList", "rejected", "Error reading file")
            /\ UNCHANGED <<guests, confirmedCount, storage>>
       ELSE /\ guests' = file.guests
            /\ IF renderThrows(guests')
               THEN /\ last' = Step("importGuestList", "threw", "Error reading file")
                    /\ UNCHANGED <<confirmedCount, storage>>
               ELSE /\ confirmedCount' = updateConfirmedCount(guests', confirmedCount)
                    /\ storage' = saveToLocalStorage(guests')
                    /\ last' = Step("importGuestList", "imported", "Guest list imported successfully")
    /\ UNCHANGED <<clock, hooks>>
    /\ UnchangedRemote

clearLocalStorage(confirmed) ==
    /\ variant = "local"
    /\ IF confirmed
       THEN /\ storage' = NoItem
            /\ guests' = <<>>
            /\ confirmedCount' = updateConfirmedCount(guests', confirmedCount)
            /\ last' = Step("clearLocalStorage", "cleared", "All data cleared")
       ELSE /\ last' = Step("clearLocalStorage", "cancelled", "")
            /\ UNCHANGED <<guests, confirmedCount, storage>>
    /\ UNCHANGED <<clock, hooks>>
    /\ UnchangedRemote

\* the visibilitychange listener, when the document becomes hidden
visibilityHidden ==
    /\ variant = "local"
    /\ hooks
    /\ storage' = saveToLocalStorage(guests)
    /\ last' = Step("visibilitychange", "saved", "")
    /\ UNCHANGED <<guests, confirmedCount, clock, hooks>>
    /\ UnchangedRemote

\* loadFromLocalStorage() on a fresh page: <<guests, count shown>>
loadFromLocalStorage(item, gs, shown) ==
    IF item = NoItem THEN <<gs, shown>>
    ELSE IF renderThrows(item.guests) THEN <<item.guests, shown>>
    ELSE <<item.guests, updateConfirmedCount(item.guests, shown)>>

\* the page is left and loaded again: the beforeunload listener (when it is
\* installed and gets to run), then the script top to bottom and the
\* DOMContentLoaded listener
reload(unloadSave) ==
    /\ variant = "local"
    /\ LET item   == IF hooks /\ unloadSave THEN saveToLocalStorage(guests) ELSE storage
           fresh  == <<SampleGuest>>
           shown  == updateConfirmedCount(fresh, 0)
           loaded == loadFromLocalStorage(item, fresh, shown)
       IN  /\ storage' = item
           /\ guests' = loaded[1]
           /\ confirmedCount' = loaded[2]
           /\ hooks' = ~renderThrows(loaded[1])
           /\ last' = Step("reload", IF unloadSave /\ hooks THEN "saved" ELSE "not_saved", "")
    /\ UNCHANGED clock
    /\ UnchangedRemote

\* time passes: Date.now() returns a later value
tick ==
    /\ variant = "local"
    /\ clock < MaxClock
    /\ clock' = clock + 1
    /\ last' = Step("tick", "", "")
    /\ UNCHANGED <<variant, guests, confirmedCount, storage, hooks, server, tasks, calls, listFailed>>

InitLocal ==
    /\ variant = "local"
    /\ guests = <<SampleGuest>>
    /\ confirmedCount = 0
    /\ storage = NoItem
    /\ clock = FirstNow
    /\ hooks = TRUE
    /\ server = <<>>
    /\ tasks = EmptyBag
    /\ calls = 0
    /\ listFailed = FALSE
    /\ last = Step("load", "", "")

NextLocal ==
    \/ \E input \in NameInputs : addGuest(input)
    \/ \E id \in IdInputs(guests), newStatus \in StatusInputs : updateGuestStatus(id, newStatus)
    \/ \E id \in IdInputs(guests) : removeGuest(id)
    \/ \E file \in ImportFiles : importGuestList(file)
    \/ \E confirmed \in BOOLEAN : clearLocalStorage(confirmed)
    \/ visibilityHidden
    \/ \E unloadSave \in BOOLEAN : reload(unloadSave)
    \/ tick

SpecLocal == InitLocal /\ [][NextLocal]_vars

-----------------------------------------------------------------------------
(* The API the remote variant talks to: the persistence collaborator *)

\* POST /guests: the created record gets an id no record of the list has
serverCreate(list, name, status) ==
    Append(list, Guest(Min({n \in 1..(Len(list) + 1) : \A i \in DOMAIN list : list[i].id # n}),
                       name, status))

serverHas(list, id) == \E i \in DOMAIN list : list[i].id = id

\* PUT /guests/<id>
serverUpdate(list, id, status) ==
    [i \in DOMAIN list |-> IF list[i].id = id THEN [list[i] EXCEPT !.status = status] ELSE list[i]]

\* DELETE /guests/<id>
serverDelete(list, id) == SelectNotId(list, id)

\* whether the API can carry out the request of task t
serverCan(list, t) ==
    IF t.op = "addGuest" THEN Len(list) < MaxGuests ELSE serverHas(list, t.id)

serverApply(list, t) ==
    CASE t.op = "addGuest"          -> serverCreate(list, t.name, t.status)
      [] t.op = "updateGuestStatus" -> serverUpdate(list, t.id, t.status)
      [] t.op = "removeGuest"       -> serverDelete(list, t.id)

-----------------------------------------------------------------------------
(* Remote variant: every await is a point where the handler is suspended *)

\* a suspended handler: phase "request" (its POST/PUT/DELETE is on its way),
\* "list" (it is in loadGuests and the GET is on its way), "listed" (the GET's
\* answer resp, data has arrived and loadGuests has not continued yet)
Task(op, phase, name, id, status, resp, data) ==
    [op |-> op, phase |-> phase, name |-> name, id |-> id, status |-> status,
     resp |-> resp, data |-> data]

\* a handler that has reached loadGuests' fetch
Loading == Task("loadGuests", "list", <<>>, 0, "", "", <<>>)

Suspend(t) == tasks (+) SetToBag({t})
Replace(t, u) == (tasks (-) SetToBag({t})) (+) SetToBag({u})
Finish(t) == tasks (-) SetToBag({t})

UnchangedLocal == UNCHANGED <<variant, storage, clock, hooks>>

RemoteNameInputs == {Blank, Al, B51}
RemoteStatusInputs == {"confirmed", "maybe"}

apiAddGuest(input) ==
    /\ variant = "remote"
    /\ LET name == trim(input)
       IN  IF validateName(name) = "empty"
           THEN /\ last' = Step("addGuest", "validation_error", "Please enter a name")
                /\ UNCHANGED <<tasks, calls>>
           ELSE IF validateName(name) = "too_long"
           THEN /\ last' = Step("addGuest", "validation_error", "Name is too long")
                /\ UNCHANGED <<tasks, calls>>
           ELSE /\ calls < MaxCalls
                /\ calls' = calls + 1
                /\ tasks' = Suspend(Task("addGuest", "request", name, 0, "pending", "", <<>>))
                /\ last' = Step("addGuest", "sent", "")
    /\ UNCHANGED <<guests, confirmedCount, server, listFailed>>
    /\ UnchangedLocal

apiUpdateGuestStatus(id, newStatus) ==
    /\ variant = "remote"
    /\ calls < MaxCalls
    /\ calls' = calls + 1
    /\ tasks' = Suspend(Task("updateGuestStatus", "request", <<>>, id, newStatus, "", <<>>))
    /\ last' = Step("updateGuestStatus", "sent", "")
    /\ UNCHANGED <<guests, confirmedCount, server, listFailed>>
    /\ UnchangedLocal

apiRemoveGuest(id, confirmed) ==
    /\ variant = "remote"
    /\ IF confirmed
       THEN /\ calls < MaxCalls
            /\ calls' = calls + 1
            /\ tasks' = Suspend(Task("removeGuest", "request", <<>>, id, "", "", <<>>))
            /\ last' = Step("removeGuest", "sent", "")
       ELSE /\ last' = Step("removeGuest", "cancelled", "")
            /\ UNCHANGED <<tasks, calls>>
    /\ UNCHANGED <<guests, confirmedCount, server, listFailed>>
    /\ UnchangedLocal

\* the API answers a POST/PUT/DELETE (carried out, refused, or the exchange
\* fails) and the handler continues after its await: to its error branches,
\* or into loadGuests, whose fetch suspends it again
resumeHandler(t, resp) ==
    /\ variant = "remote"
    /\ t.phase = "request"
    /\ resp = "ok" => serverCan(server, t)
    /\ server' = IF resp = "ok" THEN serverApply(server, t) ELSE server
    /\ IF resp = "failed"
       THEN /\ tasks' = Finish(t)
            /\ last' = Step(t.op, "failed", "Failed")
       ELSE IF resp = "not_ok"
       THEN /\ tasks' = Finish(t)
            /\ last' = Step(t.op, "refused", "Error")
       ELSE /\ tasks' = Replace(t, Loading)
            /\ last' = Step(t.op, "reloading",
                            CASE t.op = "addGuest"    -> "added successfully"
                              [] t.op = "removeGuest" -> "Guest removed"
                              [] OTHER                -> "")
    /\ UNCHANGED <<guests, confirmedCount, calls, listFailed>>
    /\ UnchangedLocal

\* the API answers GET /guests
serverList(t, resp) ==
    /\ variant = "remote"
    /\ t.phase = "list"
    /\ tasks' = Replace(t, [t EXCEPT !.phase = "listed", !.resp = resp,
                                     !.data = IF resp = "ok" THEN server ELSE <<>>])
    /\ UNCHANGED <<guests, confirmedCount, server, calls, listFailed, last>>
    /\ UnchangedLocal

\* loadGuests continues after its awaits
resumeLoadGuests(t) ==
    /\ variant = "remote"
    /\ t.phase = "listed"
    /\ tasks' = Finish(t)
    /\ IF t.resp = "ok"
       THEN /\ guests' = t.data
            /\ confirmedCount' = updateConfirmedCount(guests', confirmedCount)
            /\ last' = Step("loadGuests", "loaded", "")
       ELSE IF t.resp = "failed"
       THEN /\ last' = Step("loadGuests", "failed", "Error loading guests")
            /\ UNCHANGED <<guests, confirmedCount>>
       ELSE /\ last' = Step("loadGuests", "no_success", "")
            /\ UNCHANGED <<guests, confirmedCount>>
    /\ listFailed' = (listFailed \/ t.resp # "ok")
    /\ UNCHANGED <<server, calls>>
    /\ UnchangedLocal

InitRemote ==
    /\ variant = "remote"
    /\ guests = <<>>
    /\ confirmedCount = 0
    /\ storage = NoItem
    /\ clock = FirstNow
    /\ hooks = TRUE
    /\ server = <<Guest(1, Al, "confirmed")>>
    /\ tasks = SetToBag({Loading})
    /\ calls = 0
    /\ listFailed = FALSE
    /\ last = Step("load", "", "")

NextRemote ==
    \/ \E input \in RemoteNameInputs : apiAddGuest(input)
    \/ \E id \in IdInputs(guests), newStatus \in RemoteStatusInputs :
          apiUpdateGuestStatus(id, newStatus)
    \/ \E id \in IdInputs(guests), confirmed \in BOOLEAN : apiRemoveGuest(id, confirmed)
    \/ \E t \in BagToSet(tasks), resp \in {"ok", "not_ok", "failed"} : resumeHandler(t, resp)
    \/ \E t \in BagToSet(tasks), resp \in {"ok", "no_success", "failed"} : serverList(t, resp)
    \/ \E t \in BagToSet(tasks) : resumeLoadGuests(t)

SpecRemote == InitRemote /\ [][NextRemote]_vars

-----------------------------------------------------------------------------
(* A session of either variant *)

Init == InitLocal \/ InitRemote

Next == NextLocal \/ NextRemote

Spec == Init /\ [][Next]_vars

-----------------------------------------------------------------------------
(* Vocabulary of the properties *)

Records(gs) == {i \in DOMAIN gs : gs[i] # Null}

\* the input is empty after trimming, or longer than MaxNameLen after trimming
InvalidName(input) ==
    \/ \A i \in DOMAIN input : input[i] \in Whitespace
    \/ Len(trim(input)) > MaxNameLen

\* some record of the roster is stored under this name, ignoring case
Present(gs, name) ==
    \E i \in Records(gs) : toLowerCase(gs[i].name) = toLowerCase(name)

\* some record of the roster is the one addGuest stores for this name or for
\* the same name in another case
AddedAs(gs, name) ==
    \E i \in Records(gs), input \in NameInputs :
        /\ ~InvalidName(input)
        /\ toLowerCase(trim(input)) = toLowerCase(name)
        /\ gs[i].name = escapeHtml(trim(input))

HasId(gs, id) == \E i \in Records(gs) : gs[i].id = id

-----------------------------------------------------------------------------
(* C1: the count shown in #confirmedCount is the number of roster records *)
(* whose status is 'confirmed', in every reachable state.                  *)
C1_CountMatchesRoster ==
    confirmedCount = Cardinality({i \in Records(guests) : guests[i].status = "confirmed"})

(* C2: local addGuest with a valid name no record is stored under appends  *)
(* one pending record: length and pending count grow by one, the records   *)
(* already there are unchanged.                                            *)
C2_ValidAddAppendsPending ==
    [][\A input \in NameInputs :
          (last'.op = "addGuest" /\ addGuest(input) /\ ~InvalidName(input) /\ ~Present(guests, trim(input)))
          => /\ Len(guests') = Len(guests) + 1
             /\ SubSeq(guests', 1, Len(guests)) = guests
             /\ guests'[Len(guests')].status = "pending"
             /\ ~HasNull(guests)
             /\ getGuestStats(guests').pending = getGuestStats(guests).pending + 1]_vars

(* C3: addGuest with a name that is empty or longer than 50 characters     *)
(* after trimming ends in a validation error; the roster is unchanged,     *)
(* nothing is written to storage (local) and no request is sent (remote).  *)
C3_InvalidNameRejected ==
    [][\A input \in NameInputs \cup RemoteNameInputs :
          (last'.op = "addGuest" /\ InvalidName(input) /\ (addGuest(input) \/ apiAddGuest(input)))
          => /\ last'.outcome = "validation_error"
             /\ last'.notice \in {"Please enter a name", "Name is too long"}
             /\ guests' = guests
             /\ storage' = storage
             /\ tasks' = tasks /\ calls' = calls /\ server' = server]_vars

\* an over-long name has just been refused while the roster holds records
C3_Witness ==
    /\ last.op = "addGuest"
    /\ last.outcome = "validation_error"
    /\ last.notice = "Name is too long"
    /\ guests # <<>>

(* C4: local addGuest with a name that matches, ignoring case, the name a  *)
(* roster record was added under is refused as a duplicate and leaves the  *)
(* roster unchanged, also for names with escaped characters.               *)
C4_DuplicateRejected ==
    [][\A input \in NameInputs :
          (last'.op = "addGuest" /\ addGuest(input) /\ ~InvalidName(input) /\ AddedAs(guests, trim(input)))
          => /\ last'.outcome = "duplicate"
             /\ guests' = guests]_vars

(* C5: local updateGuestStatus(id, newStatus) with an id of the roster     *)
(* changes at most the status of one record with that id; length, order,   *)
(* ids, names and every other record stay as they were, and on a roster of *)
(* records the first one with that id ends with newStatus.                 *)
C5_UpdateChangesOneStatus ==
    [][\A id \in IdInputs(guests), newStatus \in StatusInputs :
          (last'.op = "updateGuestStatus" /\ HasId(guests, id) /\ updateGuestStatus(id, newStatus))
          => /\ Len(guests') = Len(guests)
             /\ \A i \in DOMAIN guests :
                   \/ guests'[i] = guests[i]
                   \/ /\ guests[i] # Null
                      /\ guests[i].id = id
                      /\ guests'[i] = [guests[i] EXCEPT !.status = newStatus]
                      /\ \A j \in DOMAIN guests \ {i} : guests'[j] = guests[j]
             /\ ~HasNull(guests) =>
                   guests'[Min({i \in Records(guests) : guests[i].id = id})].status = newStatus]_vars

\* a status was just updated on a roster where two records share an id and
\* only one of them took the new status
C5_Witness ==
    /\ last.op = "updateGuestStatus"
    /\ last.outcome = "updated"
    /\ \E i, j \in Records(guests) :
          /\ i < j
          /\ guests[i].id = guests[j].id
          /\ guests[i].status = "confirmed"
          /\ guests[j].status = "pending"

(* C6: updateGuestStatus or removeGuest with an id no roster record has    *)
(* shows a not-found error and leaves the roster unchanged (local: the     *)
(* call itself; remote: the handler when its request has been answered).   *)
C6_UnknownIdReported ==
    [][/\ \A id \in IdInputs(guests), newStatus \in StatusInputs :
            (/\ last'.op \in {"updateGuestStatus", "removeGuest"}
             /\ ~HasId(guests, id)
             /\ (updateGuestStatus(id, newStatus) \/ removeGuest(id)))
            => (last'.notice # "" /\ guests' = guests)
       /\ \A t \in BagToSet(tasks), resp \in {"ok", "not_ok", "failed"} :
            (/\ t.op \in {"updateGuestStatus", "removeGuest"}
             /\ ~HasId(guests, t.id)
             /\ resumeHandler(t, resp))
            => (last'.outcome = "refused" /\ guests' = guests)]_vars

(* C7: local removeGuest(id) with an id of the roster shortens the roster  *)
(* by exactly one, leaves no record with that id, and keeps every other    *)
(* record, in order.                                                       *)
C7_RemoveTakesOne ==
    [][\A id \in IdInputs(guests) :
          (last'.op = "removeGuest" /\ HasId(guests, id) /\ removeGuest(id))
          => /\ Len(guests') = Len(guests) - 1
             /\ ~HasId(guests', id)
             /\ \E k \in DOMAIN guests :
                   guests' = SubSeq(guests, 1, k - 1) \o SubSeq(guests, k + 1, Len(guests))]_vars

(* C8: in the local variant no two roster records have the same id.        *)
C8_IdsUnique ==
    variant = "local" =>
        \A i, j \in Records(guests) : guests[i].id = guests[j].id => i = j

(* C9: every roster record's stored name is non-empty and at most 50       *)
(* characters long.                                                        *)
C9_NameLength ==
    \A i \in Records(guests) :
        Len(guests[i].name) >= 1 /\ Len(guests[i].name) <= MaxNameLen

(* C10: every roster record's status is pending, confirmed or declined.    *)
C10_StatusValid ==
    \A i \in Records(guests) : guests[i].status \in Statuses

\* a persistence call of the remote variant has just ended in failure: the
\* request threw or was refused, or the list fetch threw or did not report
\* success
FailedCall(t) ==
    \/ \E resp \in {"failed", "not_ok"} : resumeHandler(t, resp)
    \/ t.phase = "listed" /\ t.resp # "ok" /\ resumeLoadGuests(t)

(* C11: remote, when a persistence call fails (the request throws, the     *)
(* response is not ok, or the list fetch does not report success), the     *)
(* roster is the same after the operation as before it and an error        *)
(* notification is shown.                                                  *)
C11_FailureSurfaced ==
    [][\A t \in BagToSet(tasks) :
          (tasks' # tasks /\ FailedCall(t))
          => /\ guests' = guests
             /\ last'.notice # ""]_vars

\* a roster operation has sent its request and its handler is suspended on
\* the answer
AwaitingAnswer == \E t \in BagToSet(tasks) : t.phase = "request"

(* C12: remote, no two roster operations overlap: while a roster operation *)
(* waits for the answer to its request, no other roster operation sends a  *)
(* request and nothing changes the roster.                                 *)
C12_NoOverlap ==
    [][AwaitingAnswer => (calls' = calls /\ guests' = guests)]_vars

\* the local operations that change the roster
RosterOps == {"addGuest", "updateGuestStatus", "removeGuest", "importGuestList",
              "clearLocalStorage"}

(* C13: local, after every operation that changes the roster (add, update  *)
(* status, remove, import, clear), the guest list stored under             *)
(* 'birthdayAppState' equals the roster.                                   *)
C13_StorageFollowsRoster ==
    [][(last'.op \in RosterOps /\ guests' # guests)
          => (storage' # NoItem /\ storage'.guests = guests')]_vars

\* the elements of gs at the indices in K, in the order of gs
Pick(gs, K) ==
    LET F[n \in 0..Len(gs)] ==
            IF n = 0 THEN <<>>
            ELSE IF n \in K THEN Append(F[n - 1], gs[n]) ELSE F[n - 1]
    IN  F[Len(gs)]

\* the same record but for its status
SameGuest(g, h) ==
    \/ g = h
    \/ g # Null /\ h # Null /\ g.id = h.id /\ g.name = h.name

(* C14: local, the roster is kept in insertion order: addGuest puts the    *)
(* new record after all records already there, updateGuestStatus leaves    *)
(* every record at its position, and removeGuest leaves the remaining      *)
(* records in the order they had.                                          *)
C14_InsertionOrder ==
    [][variant = "local" =>
          /\ (last'.op = "addGuest" /\ guests' # guests)
             => /\ Len(guests') = Len(guests) + 1
                /\ SubSeq(guests', 1, Len(guests)) = guests
          /\ last'.op = "updateGuestStatus"
             => /\ Len(guests') = Len(guests)
                /\ \A i \in DOMAIN guests : SameGuest(guests[i], guests'[i])
          /\ last'.op = "removeGuest"
             => \E K \in SUBSET DOMAIN guests : guests' = Pick(guests, K)]_vars

\* the status of the first of two records has just been updated and the
\* record added after it is still listed after it
C14_Witness ==
    /\ variant = "local"
    /\ last.op = "updateGuestStatus"
    /\ last.outcome = "updated"
    /\ Len(guests) = 2
    /\ guests[1] = [SampleGuest EXCEPT !.status = "maybe"]
    /\ guests[2] # Null
    /\ guests[2].name = escapeHtml(Al)
    /\ guests[2].status = "pending"

\* no handler is suspended: every request and every list fetch has been
\* answered and its handler has run to its end
Quiescent == tasks = EmptyBag

(* C15: remote, once every started request has completed and every list   *)
(* fetch has succeeded, the roster equals the list the server holds,       *)
(* whatever the interleaving of the operations and the order in which the  *)
(* answers arrive.                                                         *)
C15_RosterEqualsServer ==
    (variant = "remote" /\ Quiescent /\ ~listFailed) => guests = server

(* C16: local, a page reload (appState back to its initial value, then     *)
(* loadFromLocalStorage) yields the roster the page held just before the   *)
(* reload, whether or not the save at unload ran.                          *)
C16_ReloadKeepsRoster ==
    [][last'.op = "reload" => guests' = guests]_vars

-----------------------------------------------------------------------------
(* What the handlers do keep on rosters that hold records only. These are  *)
(* not the statements C1, C2 and C7 make; they locate the failures above   *)
(* in the null elements and shared ids that import and same-clock adds let *)
(* into the roster.                                                        *)

CountMatchesOnRecords == ~HasNull(guests) => C1_CountMatchesRoster

AddAppendsOnRecords ==
    [][\A input \in NameInputs :
          (/\ last'.op = "addGuest"
           /\ ~HasNull(guests)
           /\ addGuest(input) /\ ~InvalidName(input) /\ ~Present(guests, trim(input)))
          => /\ Len(guests') = Len(guests) + 1
             /\ SubSeq(guests', 1, Len(guests)) = guests
             /\ guests'[Len(guests')].status = "pending"
             /\ getGuestStats(guests').pending = getGuestStats(guests).pending + 1]_vars

RemoveTakesOneOnUniqueIds ==
    [][\A id \in IdInputs(guests) :
          (/\ last'.op = "removeGuest"
           /\ ~HasNull(guests)
           /\ Cardinality({i \in Records(guests) : guests[i].id = id}) = 1
           /\ removeGuest(id))
          => /\ Len(guests') = Len(guests) - 1
             /\ ~HasId(guests', id)
             /\ \E k \in DOMAIN guests :
                   guests' = SubSeq(guests, 1, k - 1) \o SubSeq(guests, k + 1, Len(guests))]_vars

\* the roster half of C11: no failing persistence call changes the roster
FailureLeavesRoster ==
    [][\A t \in BagToSet(tasks) :
          (tasks' # tasks /\ FailedCall(t)) => guests' = guests]_vars

\* C16 for the reloads whose save at unload ran
ReloadKeepsSavedRoster ==
    [][(last'.op = "reload" /\ last'.outcome = "saved") => guests' = guests]_vars

====
